---- MODULE Spec2Model ----
(***************************************************************************)
(* Model of the three batch analysis jobs of insight254-data-analysis:     *)
(*   hotspot_detection.py, crime_correlation.py, temporal_analysis.py.     *)
(* Each job reads a window of the incident store, groups the records       *)
(* (DBSCAN or exact grouping), scores every group, and replaces its        *)
(* destination table (CREATE IF NOT EXISTS + TRUNCATE in one transaction,  *)
(* then a bulk append).                                                    *)
(*                                                                         *)
(* Numbers.  Coordinates are cells of a grid of CoordUnit thousandths of a *)
(* degree.  Means are kept exact as fractions [num, den]; the values the   *)
(* destination table stores are rounded to the scale of its NUMERIC        *)
(* column.  last_updated and the SERIAL id are not part of a row here.     *)
(***************************************************************************)
EXTENDS Integers, Sequences, FiniteSets, TLC

\* ------------------------------------------------------------------ bounds
\* grid step of the coordinates, in thousandths of a degree
CoordUnit == 8
\* copies of one kind of record in a generated input
MaxPerSite == 2
\* records in one grid cell of a generated hotspot input
MaxPerCell == 3
\* filler records of the second category in a generated correlation input
MaxFiller == 6
\* largest group size the scoring rules are applied to
MaxCount == 12

\* --------------------------------------------------------- small helpers
Range(s) == {s[i] : i \in 1..Len(s)}

RECURSIVE SumOver(_, _)
SumOver(f, S) ==
    IF S = {} THEN 0
    ELSE LET x == CHOOSE y \in S : TRUE IN f[x] + SumOver(f, S \ {x})

SetMax(S) == CHOOSE x \in S : \A y \in S : y <= x
SetMin(S) == CHOOSE x \in S : \A y \in S : x <= y

\* the members of a set of integers in ascending order
RECURSIVE Ascending(_)
Ascending(S) ==
    IF S = {} THEN <<>>
    ELSE LET m == SetMin(S) IN <<m>> \o Ascending(S \ {m})

\* pandas unique(): the values of a sequence in order of first appearance
RECURSIVE Unique(_)
Unique(s) ==
    IF s = <<>> THEN <<>>
    ELSE LET u == Unique(SubSeq(s, 1, Len(s) - 1))
         IN IF s[Len(s)] \in Range(u) THEN u ELSE Append(u, s[Len(s)])

RECURSIVE Flatten(_)
Flatten(ss) ==
    IF ss = <<>> THEN <<>> ELSE Head(ss) \o Flatten(Tail(ss))

\* ------------------------------------------------------ the incident store
Jobs == {"hotspot", "correlation", "temporal"}

\* categories in the order pandas sorts them
Categories == <<"other", "theft">>
CatRank(c) == CHOOSE i \in 1..Len(Categories) : Categories[i] = c
\* ra.category IS NULL (no analysis row joined)
NullCategory == "null"

\* the moment the queries run (NOW()): day number and hour
Now == [day |-> 60, hour |-> 0]

Stamp(r) == r.day * 24 + r.hour
\* EXTRACT(DOW FROM created_at), day 0 being a Sunday; EXTRACT(HOUR ...)
DayOfWeek(r) == r.day % 7
HourOfDay(r) == r.hour

\* lookback window of each job's query, in days
HotspotWindow == 30
CorrelationWindow == 60
TemporalWindow == 90

InWindow(r, days) == Stamp(r) > Stamp(Now) - days * 24
Completed(r) == r.status \in {"complete", "completed"}

\* the columns of a selected row: COALESCE(ra.category, 'other'),
\* COALESCE(ra.severity, 1) (severity 0 is NULL), created_at in hours, and the
\* two columns extracted from it
Selected(r) ==
    [lat |-> r.lat,
     lng |-> r.lng,
     category |-> IF r.category = NullCategory THEN "other" ELSE r.category,
     severity |-> IF r.severity = 0 THEN 1 ELSE r.severity,
     created_at |-> Stamp(r),
     day_of_week |-> DayOfWeek(r),
     hour_of_day |-> HourOfDay(r)]

HotspotSelects(r) == r.located /\ InWindow(r, HotspotWindow) /\ Completed(r)

CorrelationSelects(r) ==
    /\ InWindow(r, CorrelationWindow)
    /\ r.located
    /\ r.category # NullCategory
    /\ Completed(r)

TemporalSelects(r) ==
    /\ InWindow(r, TemporalWindow)
    /\ Completed(r)
    /\ r.category # NullCategory

\* pd.read_sql(query, engine): the selected rows, in the store's order
ReadSql(job, store) ==
    LET rows == CASE job = "hotspot" -> SelectSeq(store, HotspotSelects)
                  [] job = "correlation" -> SelectSeq(store, CorrelationSelects)
                  [] OTHER -> SelectSeq(store, TemporalSelects)
    IN [i \in 1..Len(rows) |-> Selected(rows[i])]

\* ----------------------------------------------------------------- DBSCAN
Noise == -1

\* sklearn's dbscan_inner: grow cluster `lab` from point i with an explicit
\* stack; a point already labelled keeps its label (a border point belongs
\* to the first cluster that reaches it)
RECURSIVE Grow(_, _, _, _, _, _)
Grow(i, stack, labels, lab, nbrs, core) ==
    LET fresh == labels[i] = Noise
        labels1 == IF fresh THEN [labels EXCEPT ![i] = lab] ELSE labels
        pushed == IF fresh /\ core[i]
                  THEN SelectSeq(Ascending(nbrs[i]), LAMBDA v : labels1[v] = Noise)
                  ELSE <<>>
        stack1 == stack \o pushed
    IN IF stack1 = <<>> THEN labels1
       ELSE Grow(stack1[Len(stack1)], SubSeq(stack1, 1, Len(stack1) - 1),
                 labels1, lab, nbrs, core)

RECURSIVE Scan(_, _, _, _, _)
Scan(i, labels, lab, nbrs, core) ==
    IF i > Len(labels) THEN labels
    ELSE IF labels[i] # Noise \/ ~core[i] THEN Scan(i + 1, labels, lab, nbrs, core)
    ELSE Scan(i + 1, Grow(i, <<>>, labels, lab, nbrs, core), lab + 1, nbrs, core)

\* DBSCAN(eps, min_samples).fit(X).labels_ ; nbrs[i] is the set of points
\* within eps of point i (radius_neighbors, the point itself included)
DBSCAN(nbrs, minSamples) ==
    LET n == Len(nbrs)
        core == [i \in 1..n |-> Cardinality(nbrs[i]) >= minSamples]
    IN Scan(1, [i \in 1..n |-> Noise], 0, nbrs, core)

\* -------------------------------------------------------------- fractions
RECURSIVE Gcd(_, _)
Gcd(a, b) == IF b = 0 THEN a ELSE Gcd(b, a % b)

Abs(x) == IF x < 0 THEN -x ELSE x

\* the fraction n/d in lowest terms, d > 0
Frac(n, d) ==
    LET g == Gcd(Abs(n), Abs(d))
        sgn == IF d < 0 THEN -1 ELSE 1
    IN [num |-> sgn * (n \div g), den |-> sgn * (d \div g)]

Whole(n) == [num |-> n, den |-> 1]
FAdd(a, b) == Frac(a.num * b.den + b.num * a.den, a.den * b.den)
FSub(a, b) == Frac(a.num * b.den - b.num * a.den, a.den * b.den)
FMul(a, b) == Frac(a.num * b.num, a.den * b.den)
FLe(a, b) == a.num * b.den <= b.num * a.den
FGe(a, b) == FLe(b, a)
FLt(a, b) == ~FLe(b, a)
FMin(a, b) == IF FLe(a, b) THEN a ELSE b

\* long division of rem/den to `places` more decimal places, the last rounded
\* half up
RECURSIVE Decimals(_, _, _, _)
Decimals(acc, rem, den, places) ==
    IF places = 0 THEN (IF 2 * rem >= den THEN acc + 1 ELSE acc)
    ELSE Decimals(acc * 10 + (rem * 10) \div den, (rem * 10) % den, den, places - 1)

\* a float f >= 0 written to a NUMERIC(p, s) column: the stored value, as a
\* whole number of 10^-s
Numeric(f, s) == Decimals(f.num \div f.den, f.num % f.den, f.den, s)

\* ------------------------------------------------------- group statistics
\* a column of df, as the function from row number to value
Column(df, name) == [i \in 1..Len(df) |-> df[i][name]]

\* Series.mean() of an integer column over the rows `members`
Mean(col, members) == Frac(SumOver(col, members), Cardinality(members))

\* Series.mode()[0]: the most frequent value, the smallest one on a tie
Mode(col, members) ==
    LET vals == {col[i] : i \in members}
        freq == [v \in vals |-> Cardinality({i \in members : col[i] = v})]
        top == SetMax({freq[v] : v \in vals})
    IN SetMin({v \in vals : freq[v] = top})

\* a mean of grid cells, in degrees
Degrees(f) == FMul(f, Frac(CoordUnit, 1000))

\* ----------------------------------------------------------- hotspot job
\* eps = 0.01 degrees, in thousandths of a degree
HotspotEps == 10
HotspotMinSamples == 5

\* euclidean distance of two (latitude, longitude) pairs <= eps
HotspotNear(p, q) ==
    CoordUnit * CoordUnit
        * ((p.lat - q.lat) * (p.lat - q.lat) + (p.lng - q.lng) * (p.lng - q.lng))
      <= HotspotEps * HotspotEps

HotspotLabels(df) ==
    DBSCAN([i \in 1..Len(df) |-> {j \in 1..Len(df) : HotspotNear(df[i], df[j])}],
           HotspotMinSamples)

\* one row of hotspot_stats: the aggregates of the records labelled `label`
HotspotRow(df, labels, label) ==
    LET members == {i \in 1..Len(df) : labels[i] = label}
    IN [hotspot_id |-> label,
        center_lat |-> Degrees(Mean(Column(df, "lat"), members)),
        center_lng |-> Degrees(Mean(Column(df, "lng"), members)),
        avg_severity |-> Mean(Column(df, "severity"), members),
        max_severity |-> SetMax({df[i].severity : i \in members}),
        incident_count |-> Cardinality(members),
        primary_category |->
            Categories[Mode([i \in 1..Len(df) |-> CatRank(df[i].category)], members)],
        radius_km |-> Whole(1)]

\* hotspots_df.groupby("hotspot_id"): one row per label that is not noise,
\* in ascending order of the label
HotspotStats(df) ==
    LET labels == HotspotLabels(df)
        ids == Ascending({labels[i] : i \in 1..Len(df)} \ {Noise})
    IN [k \in 1..Len(ids) |-> HotspotRow(df, labels, ids[k])]

\* ------------------------------------------------------- correlation job
\* the job returns before any analysis below this many records
CorrelationMinReports == 10
\* a category with fewer records is skipped
CategoryMinReports == 5
CorrelationMinSamples == 3
\* a cluster with fewer members is skipped
ClusterMinSize == 3

\* features = [lat * 0.7, lng * 0.7, dow / 7 * 0.3, hour / 24 * 0.3], eps = 0.05;
\* both sides of distance <= eps are multiplied by 70000
CorrelationNear(p, q) ==
    LET dlat == 49 * CoordUnit * (p.lat - q.lat)
        dlng == 49 * CoordUnit * (p.lng - q.lng)
        ddow == 3000 * (p.day_of_week - q.day_of_week)
        dhour == 875 * (p.hour_of_day - q.hour_of_day)
    IN dlat * dlat + dlng * dlng + ddow * ddow + dhour * dhour <= 3500 * 3500

CorrelationLabels(df) ==
    DBSCAN([i \in 1..Len(df) |-> {j \in 1..Len(df) : CorrelationNear(df[i], df[j])}],
           CorrelationMinSamples)

\* variant: both end days counted
TimeSpanDays_Inclusive(df, members) ==
    (SetMax({df[i].created_at : i \in members})
        - SetMin({df[i].created_at : i \in members})) \div 24 + 1

\* (created_at.max() - created_at.min()).days
TimeSpanDays(df, members) ==
    (SetMax({df[i].created_at : i \in members})
        - SetMin({df[i].created_at : i \in members})) \div 24

\* variant: the span bound taken as strict
IsOrganized_StrictSpan(count, span, avg) ==
    count >= 4 /\ span < 45 /\ FGe(avg, Frac(5, 2))

IsOrganized(count, span, avg) ==
    count >= 4 /\ span <= 45 /\ FGe(avg, Frac(5, 2))

\* variant: the total left uncapped
ConfidenceScore_NoCap(count, span, avg) ==
    FAdd(FAdd(FMul(Frac(count, 10), Frac(4, 10)),
              FMul(FSub(Whole(1), Frac(span, 60)), Frac(3, 10))),
         FMul(FMul(avg, Frac(1, 5)), Frac(3, 10)))

ConfidenceScore(count, span, avg) ==
    FMin(FAdd(FAdd(FMul(Frac(count, 10), Frac(4, 10)),
                   FMul(FSub(Whole(1), Frac(span, 60)), Frac(3, 10))),
              FMul(FMul(avg, Frac(1, 5)), Frac(3, 10))),
         Whole(1))

\* lines 119-133: the two derived columns, from the three aggregates
Score(count, span, avg) ==
    [incident_count |-> count,
     time_span_days |-> span,
     avg_severity |-> avg,
     is_likely_organized |-> IsOrganized(count, span, avg),
     confidence_score |-> ConfidenceScore(count, span, avg)]

CorrelationRow(df, members, category, label) ==
    LET s == Score(Cardinality(members), TimeSpanDays(df, members),
                   Mean(Column(df, "severity"), members))
    IN [cluster_id |-> <<category, label>>,
        category |-> category,
        incident_count |-> s.incident_count,
        center_lat |-> Degrees(Mean(Column(df, "lat"), members)),
        center_lng |-> Degrees(Mean(Column(df, "lng"), members)),
        avg_severity |-> s.avg_severity,
        time_span_days |-> s.time_span_days,
        most_common_day |-> Mode(Column(df, "day_of_week"), members),
        most_common_hour |-> Mode(Column(df, "hour_of_day"), members),
        is_likely_organized |-> s.is_likely_organized,
        confidence_score |-> s.confidence_score]

\* the inner loop: the accepted clusters of one category, by first appearance
CategoryCorrelations(df, category) ==
    LET cdf == SelectSeq(df, LAMBDA r : r.category = category)
        labels == CorrelationLabels(cdf)
        ids == SelectSeq(Unique(labels), LAMBDA l : l # Noise)
        Members(l) == {i \in 1..Len(cdf) : labels[i] = l}
        kept == SelectSeq(ids, LAMBDA l : Cardinality(Members(l)) >= ClusterMinSize)
    IN IF Len(cdf) < CategoryMinReports THEN <<>>
       ELSE [k \in 1..Len(kept) |-> CorrelationRow(cdf, Members(kept[k]), category, kept[k])]

\* the outer loop over df["category"].unique()
Correlations(df) ==
    LET cats == Unique([i \in 1..Len(df) |-> df[i].category])
    IN Flatten([k \in 1..Len(cats) |-> CategoryCorrelations(df, cats[k])])

\* ---------------------------------------------------------- temporal job
\* variant: "medium" needing both conditions
get_risk_level_BothForMedium(avg, count) ==
    IF FGe(avg, Whole(4)) /\ count >= 3 THEN "high"
    ELSE IF FGe(avg, Whole(3)) /\ count >= 5 THEN "medium"
    ELSE "low"

get_risk_level(avg, count) ==
    IF FGe(avg, Whole(4)) /\ count >= 3 THEN "high"
    ELSE IF FGe(avg, Whole(3)) \/ count >= 5 THEN "medium"
    ELSE "low"

\* position of a (day_of_week, hour_of_day, category) key in groupby's order
KeyRank(r) ==
    (r.day_of_week * 24 + r.hour_of_day) * Len(Categories) + CatRank(r.category)

PatternRow(df, rank) ==
    LET members == {i \in 1..Len(df) : KeyRank(df[i]) = rank}
        first == df[SetMin(members)]
        avg == Mean(Column(df, "severity"), members)
    IN [day_of_week |-> first.day_of_week,
        hour_of_day |-> first.hour_of_day,
        category |-> first.category,
        avg_severity |-> avg,
        incident_count |-> Cardinality(members),
        risk_level |-> get_risk_level(avg, Cardinality(members))]

\* df.groupby([...]).agg(...): one row per key observed, in key order
Patterns(df) ==
    LET ranks == Ascending({KeyRank(df[i]) : i \in 1..Len(df)})
    IN [k \in 1..Len(ranks) |-> PatternRow(df, ranks[k])]

\* ------------------------------------------------------- what a run does
\* the result set of a run over the records it loaded
Results(job, df) ==
    CASE job = "hotspot" -> HotspotStats(df)
      [] job = "correlation" ->
            IF Len(df) < CorrelationMinReports THEN <<>> ELSE Correlations(df)
      [] OTHER -> Patterns(df)

\* variant: the correlation job without its check of the number of records
Proceeds_NoReportMinimum(job, df) ==
    CASE job = "hotspot" ->
            Len(df) # 0 /\ Range(HotspotLabels(df)) # {Noise}
      [] job = "correlation" -> Len(Correlations(df)) # 0
      [] OTHER -> Len(df) # 0

\* FALSE when main() returns before its write phase
\*   hotspot: no record loaded, or every record is noise
\*   correlation: fewer than 10 records, or no accepted cluster
\*   temporal: no record loaded
Proceeds(job, df) ==
    CASE job = "hotspot" ->
            Len(df) # 0 /\ Range(HotspotLabels(df)) # {Noise}
      [] job = "correlation" ->
            Len(df) >= CorrelationMinReports /\ Len(Correlations(df)) # 0
      [] OTHER -> Len(df) # 0

\* the value a result row has once stored in its table's NUMERIC columns
StoredRow(job, row) ==
    CASE job = "hotspot" ->
            [row EXCEPT !.center_lat = Numeric(@, 8),
                        !.center_lng = Numeric(@, 8),
                        !.avg_severity = Numeric(@, 2),
                        !.radius_km = Numeric(@, 2)]
      [] job = "correlation" ->
            [row EXCEPT !.center_lat = Numeric(@, 8),
                        !.center_lng = Numeric(@, 8),
                        !.avg_severity = Numeric(@, 2),
                        !.confidence_score = Numeric(@, 2)]
      [] OTHER -> [row EXCEPT !.avg_severity = Numeric(@, 2)]

\* DataFrame.to_sql(table, engine, if_exists="append"): the rows as stored
ToSql(job, rows) == [k \in 1..Len(rows) |-> StoredRow(job, rows[k])]

\* variant: the TRUNCATE left out
Truncated_KeepsRows(rows) == rows

\* TRUNCATE TABLE
Truncated(rows) == <<>>

\* variant: if_exists="replace"
Appended_Replaces(rows, new) == new

\* if_exists="append": the new rows follow whatever the table holds
Appended(rows, new) == rows \o new

\* ------------------------------------------------------ generated inputs
Report(lat, category, severity, day, hour, located, status) ==
    [lat |-> lat, lng |-> 0, category |-> category, severity |-> severity,
     day |-> day, hour |-> hour, located |-> located, status |-> status]

\* five neighbouring grid cells along a meridian, and a record without coordinates
HotspotSites ==
    << Report(0, "theft", 1, 45, 12, TRUE, "complete"),
       Report(1, NullCategory, 0, 45, 12, TRUE, "completed"),
       Report(2, "theft", 3, 46, 12, TRUE, "complete"),
       Report(3, "other", 4, 46, 12, TRUE, "complete"),
       Report(4, "theft", 5, 47, 12, TRUE, "complete"),
       Report(2, "theft", 5, 47, 12, FALSE, "complete") >>

HotspotCaps == <<MaxPerCell, MaxPerCell, MaxPerCell, MaxPerCell, MaxPerCell, 1>>

\* thefts at one place on a Monday, Tuesday, Wednesday and Thursday 8 to 10
\* days apart, a theft far away, fillers of another category, and a theft
\* exactly 60 days old
CorrelationSites ==
    << Report(0, "theft", 3, 1, 0, TRUE, "complete"),
       Report(0, "theft", 3, 9, 0, TRUE, "complete"),
       Report(0, "theft", 4, 10, 0, TRUE, "completed"),
       Report(0, "theft", 2, 11, 0, TRUE, "complete"),
       Report(30, "theft", 1, 1, 0, TRUE, "complete"),
       Report(0, "other", 1, 1, 0, TRUE, "complete"),
       Report(0, "theft", 5, 0, 0, TRUE, "complete") >>

CorrelationCaps ==
    <<MaxPerSite, MaxPerSite, MaxPerSite, MaxPerSite, 1, MaxFiller, 1>>

\* three kinds of record of one (Monday, 00h, theft) key, one of another key,
\* a record without analysis and one that is still pending
TemporalSites ==
    << Report(0, "theft", 4, 1, 0, TRUE, "complete"),
       Report(0, "theft", 2, 1, 0, FALSE, "complete"),
       Report(0, "theft", 5, 8, 0, TRUE, "completed"),
       Report(0, "other", 1, 2, 1, TRUE, "complete"),
       Report(0, NullCategory, 3, 1, 0, TRUE, "complete"),
       Report(0, "theft", 5, 1, 0, TRUE, "pending") >>

TemporalCaps == <<MaxPerCell, MaxPerCell, MaxPerCell, MaxPerCell, 1, 1>>

Sites(job) ==
    CASE job = "hotspot" -> HotspotSites
      [] job = "correlation" -> CorrelationSites
      [] OTHER -> TemporalSites

Caps(job) ==
    CASE job = "hotspot" -> HotspotCaps
      [] job = "correlation" -> CorrelationCaps
      [] OTHER -> TemporalCaps

\* the store holding counts[k] copies of the k-th kind of record
Store(sites, counts) ==
    Flatten([k \in 1..Len(sites) |-> [i \in 1..counts[k] |-> sites[k]]])

RECURSIVE CountVectors(_)
CountVectors(caps) ==
    IF caps = <<>> THEN {<<>>}
    ELSE {<<h>> \o t : h \in 0..Head(caps), t \in CountVectors(Tail(caps))}

\* every store within the caps
Inputs(job) == {Store(Sites(job), v) : v \in CountVectors(Caps(job))}

\* three stores of each job: one its run gives up on, two it reports on
FewCounts(job) ==
    CASE job = "hotspot" ->
            {<<1, 1, 1, 0, 0, 1>>, <<3, 1, 1, 1, 3, 0>>, <<3, 2, 0, 0, 0, 1>>}
      [] job = "correlation" ->
            {<<1, 1, 1, 1, 0, 0, 0>>, <<1, 1, 1, 1, 1, 5, 0>>, <<2, 2, 2, 0, 2, 2, 1>>}
      [] OTHER ->
            {<<0, 0, 0, 0, 1, 1>>, <<1, 1, 1, 0, 0, 0>>, <<3, 0, 0, 2, 1, 0>>}

FewInputs(job) == {Store(Sites(job), v) : v \in FewCounts(job)}

\* ------------------------------------------------------------------ state
VARIABLES
    job,        \* the script the invocations below are runs of
    store,      \* reports joined with report_analysis, in the store's order
    table,      \* the job's destination table: [exists, rows]
    pc,         \* where each invocation of main() stands
    df,         \* the records each invocation loaded
    overlap,    \* history: another invocation was under way during this one
    last,       \* history: what the latest undisturbed invocation loaded and left
    probe       \* a group's aggregates and the row the scoring rules give it

vars == <<job, store, table, pc, df, overlap, last, probe>>

\* two invocations may be under way at once
Runs == {1, 2}
Other(r) == 3 - r

NoTable == [exists |-> FALSE, rows |-> <<>>]
NoRun == [valid |-> FALSE, df |-> <<>>, table |-> NoTable]
NoProbe == [kind |-> "none"]

Failed == {"query_failed", "truncate_failed", "append_failed"}
Ended == {"idle", "done", "insufficient"} \cup Failed
Active(r) == pc[r] \notin Ended

InitRuns ==
    /\ table = NoTable
    /\ pc = [r \in Runs |-> "idle"]
    /\ df = [r \in Runs |-> <<>>]
    /\ overlap = [r \in Runs |-> FALSE]
    /\ last = NoRun

\* the history kept when invocation r ends: undisturbed, it is the latest run
Remember(r, clean, tableAfter) ==
    IF clean /\ ~overlap[r]
    THEN [valid |-> TRUE, df |-> df[r], table |-> tableAfter]
    ELSE NoRun

\* the application files or changes reports between reads
SetStore(inputs) ==
    /\ \E d \in inputs : store' = d
    /\ store' # store
    /\ UNCHANGED <<job, table, pc, df, overlap, last, probe>>

\* a new invocation: pd.read_sql(query, engine)
Load(r) ==
    /\ pc[r] \in Ended
    /\ df' = [df EXCEPT ![r] = ReadSql(job, store)]
    /\ pc' = [pc EXCEPT ![r] = "loaded"]
    /\ overlap' = [q \in Runs |->
                      IF q = r THEN Active(Other(r)) ELSE overlap[q] \/ Active(q)]
    /\ UNCHANGED <<job, store, table, last, probe>>

\* a new invocation whose query raises: the store cannot be reached
QueryFails(r) ==
    /\ pc[r] \in Ended
    /\ pc' = [pc EXCEPT ![r] = "query_failed"]
    /\ df' = [df EXCEPT ![r] = <<>>]
    /\ overlap' = [overlap EXCEPT ![r] = Active(Other(r))]
    /\ last' = NoRun
    /\ UNCHANGED <<job, store, table, probe>>

\* cluster or group, score; return early on insufficient data
Analyse(r) ==
    /\ pc[r] = "loaded"
    /\ pc' = [pc EXCEPT ![r] =
                  IF Proceeds(job, df[r]) THEN "computed" ELSE "insufficient"]
    /\ last' = IF pc'[r] = "computed" THEN last ELSE Remember(r, TRUE, table)
    /\ UNCHANGED <<job, store, table, df, overlap, probe>>

\* with engine.begin(): CREATE TABLE IF NOT EXISTS and TRUNCATE, one commit
CreateAndTruncate(r) ==
    /\ pc[r] = "computed"
    /\ table' = [exists |-> TRUE, rows |-> Truncated(table.rows)]
    /\ pc' = [pc EXCEPT ![r] = "truncated"]
    /\ UNCHANGED <<job, store, df, overlap, last, probe>>

\* the transaction raises and is rolled back
CreateAndTruncateFails(r) ==
    /\ pc[r] = "computed"
    /\ pc' = [pc EXCEPT ![r] = "truncate_failed"]
    /\ last' = NoRun
    /\ UNCHANGED <<job, store, table, df, overlap, probe>>

\* to_sql(..., if_exists="append"): the bulk insert, a transaction of its own
AppendResults(r) ==
    /\ pc[r] = "truncated"
    /\ table' = [table EXCEPT !.rows = Appended(@, ToSql(job, Results(job, df[r])))]
    /\ pc' = [pc EXCEPT ![r] = "done"]
    /\ last' = Remember(r, TRUE, table')
    /\ UNCHANGED <<job, store, df, overlap, probe>>

\* the bulk insert raises: nothing is inserted
AppendFails(r) ==
    /\ pc[r] = "truncated"
    /\ pc' = [pc EXCEPT ![r] = "append_failed"]
    /\ last' = NoRun
    /\ UNCHANGED <<job, store, table, df, overlap, probe>>

\* ---- runs of one job, one after another or overlapping, over changing data
Init ==
    /\ job \in Jobs
    /\ store \in FewInputs(job)
    /\ probe = NoProbe
    /\ InitRuns

Next ==
    \/ SetStore(FewInputs(job))
    \/ \E r \in Runs :
          \/ Load(r)
          \/ QueryFails(r)
          \/ Analyse(r)
          \/ CreateAndTruncate(r)
          \/ CreateAndTruncateFails(r)
          \/ AppendResults(r)
          \/ AppendFails(r)

Spec == Init /\ [][Next]_vars

\* ---- one invocation at a time and no fault, over every generated store
InitInputs ==
    /\ job \in Jobs
    /\ store \in Inputs(job)
    /\ probe = NoProbe
    /\ InitRuns

NextInputs ==
    \/ Load(1)
    \/ Analyse(1)
    \/ CreateAndTruncate(1)
    \/ AppendResults(1)

SpecInputs == InitInputs /\ [][NextInputs]_vars

\* ---- the scoring rules alone, over every aggregate a group can have
\* severities are 1..5, so a group of n records has a severity sum in n..5n;
\* the members of a correlation cluster lie inside the query's window
InitScore ==
    /\ job \in {"correlation", "temporal"}
    /\ store = <<>>
    /\ InitRuns
    /\ \E c \in 1..MaxCount, s \in 1..(5 * MaxCount) :
          /\ c <= s /\ s <= 5 * c
          /\ \/ /\ job = "correlation"
                /\ c >= ClusterMinSize
                /\ \E d \in 0..(CorrelationWindow - 1) :
                      probe = [kind |-> "group", count |-> c, sum |-> s, span |-> d]
             \/ /\ job = "temporal"
                /\ probe = [kind |-> "group", count |-> c, sum |-> s, span |-> 0]

\* crime_correlation.py lines 119-133 on one accepted cluster
ScoreCluster ==
    /\ job = "correlation"
    /\ probe.kind = "group"
    /\ probe' = [kind |-> "row", count |-> probe.count, sum |-> probe.sum,
                 span |-> probe.span,
                 row |-> Score(probe.count, probe.span, Frac(probe.sum, probe.count))]
    /\ UNCHANGED <<job, store, table, pc, df, overlap, last>>

\* temporal_analysis.py line 78 on one group
RateGroup ==
    /\ job = "temporal"
    /\ probe.kind = "group"
    /\ probe' = [kind |-> "row", count |-> probe.count, sum |-> probe.sum,
                 span |-> probe.span,
                 row |-> [avg_severity |-> Frac(probe.sum, probe.count),
                          incident_count |-> probe.count,
                          risk_level |-> get_risk_level(Frac(probe.sum, probe.count),
                                                        probe.count)]]
    /\ UNCHANGED <<job, store, table, pc, df, overlap, last>>

NextScore == ScoreCluster \/ RateGroup

SpecScore == InitScore /\ [][NextScore]_vars

\* ============================================================ properties
\* the rows a run that loaded df[r] stores
Stored(r) == ToSql(job, Results(job, df[r]))

\* ---------------------------------------------------------------------- C1
\* C1 as stated: the risk_level of a temporal row follows the four-tier rule
\* critical (avg >= 4 and count >= 3), else high (avg >= 3 and count >= 3),
\* else medium (avg >= 2 or count >= 5), else low.
C1_FourTierRule ==
    (job = "temporal" /\ probe.kind = "row") =>
        LET c == probe.count
            s == probe.sum
        IN probe.row.risk_level =
              IF s >= 4 * c /\ c >= 3 THEN "critical"
              ELSE IF s >= 3 * c /\ c >= 3 THEN "high"
              ELSE IF s >= 2 * c \/ c >= 5 THEN "medium"
              ELSE "low"

\* C1 amended: the risk_level of a temporal row follows the three-tier rule
\* high (avg >= 4 and count >= 3), else medium (avg >= 3 or count >= 5), else
\* low; every (avg_severity, count) pair gets exactly one of the three, the
\* first that matches.
C1_ThreeTierRule ==
    (job = "temporal" /\ probe.kind = "row") =>
        LET c == probe.count
            s == probe.sum
        IN /\ probe.row.risk_level \in {"high", "medium", "low"}
           /\ probe.row.risk_level = "high" <=> (s >= 4 * c /\ c >= 3)
           /\ probe.row.risk_level = "medium" <=>
                 (~(s >= 4 * c /\ c >= 3) /\ (s >= 3 * c \/ c >= 5))
           /\ probe.row.risk_level = "low" <=>
                 (~(s >= 4 * c /\ c >= 3) /\ ~(s >= 3 * c \/ c >= 5))

\* a group of at least 3 records with an average in [3, 4) was rated medium
C1_Witness ==
    /\ job = "temporal"
    /\ probe.kind = "row"
    /\ probe.count >= 3
    /\ probe.count < 5
    /\ probe.sum >= 3 * probe.count
    /\ probe.sum < 4 * probe.count
    /\ probe.row.risk_level = "medium"

\* ---------------------------------------------------------------------- C2
\* C2: a correlation row has is_likely_organized exactly when
\* incident_count >= 4 and time_span_days <= 45 and avg_severity >= 2.5.
C2_OrganizedIff ==
    (job = "correlation" /\ probe.kind = "row") =>
        /\ probe.row.incident_count = probe.count
        /\ probe.row.time_span_days = probe.span
        /\ probe.row.avg_severity.num * probe.count
              = probe.sum * probe.row.avg_severity.den
        /\ probe.row.is_likely_organized <=>
              (probe.count >= 4 /\ probe.span <= 45 /\ 2 * probe.sum >= 5 * probe.count)

\* the three bounds met with equality: 4 records, 45 days, average 2.5
C2_Witness ==
    /\ job = "correlation"
    /\ probe.kind = "row"
    /\ probe.count = 4
    /\ probe.span = 45
    /\ probe.sum = 10
    /\ probe.row.is_likely_organized

\* ---------------------------------------------------------------------- C3
\* C3: the confidence_score of a correlation row (count >= 3, severities in
\* 1..5, span inside the 60-day window) is
\* min(1, (count/10)*0.4 + (1 - span/60)*0.3 + (avg/5)*0.3) and lies in [0, 1];
\* the sum times 200*count is 8*count^2 + 60*count - span*count + 12*sum.
C3_ConfidenceInUnitInterval ==
    (job = "correlation" /\ probe.kind = "row") =>
        LET c == probe.count
            raw == 8 * c * c + 60 * c - probe.span * c + 12 * probe.sum
            capped == IF raw > 200 * c THEN 200 * c ELSE raw
            score == probe.row.confidence_score
        IN /\ score.den > 0
           /\ score.num >= 0
           /\ score.num <= score.den
           /\ score.num * 200 * c = capped * score.den

\* a cluster whose uncapped total exceeds 1 got the score 1
C3_Witness ==
    /\ job = "correlation"
    /\ probe.kind = "row"
    /\ 8 * probe.count * probe.count + 60 * probe.count - probe.span * probe.count
          + 12 * probe.sum > 200 * probe.count
    /\ probe.row.confidence_score = Whole(1)

\* ---------------------------------------------------------------------- C4
\* the smallest group each job is said to report
MinGroupSize ==
    CASE job = "hotspot" -> HotspotMinSamples
      [] job = "correlation" -> ClusterMinSize
      [] OTHER -> 1

\* C4 as stated: no row of a destination table has an incident_count below
\* its job's minimum group size (5 hotspot, 3 correlation, 1 temporal).
C4_NoGroupBelowMinimum ==
    \A k \in 1..Len(table.rows) : table.rows[k].incident_count >= MinGroupSize

\* ---------------------------------------------------------------------- C5
\* the fewest loaded records with which each job reaches its write phase
MinRecords ==
    CASE job = "hotspot" -> HotspotMinSamples
      [] job = "correlation" -> CorrelationMinReports
      [] OTHER -> 1

\* C5 as stated: in every job a run that loaded no record or a few (3, say)
\* ends as insufficient data and inserts nothing.
C5_ThreeRecordsNeverWrite ==
    \A r \in Runs :
        (pc[r] # "idle" /\ Len(df[r]) <= 3) =>
            (pc[r] \in {"loaded", "insufficient"} /\ table.rows = <<>>)

\* C5 amended: a hotspot run that loaded fewer than 5 records and a
\* correlation run that loaded fewer than 10 end as insufficient data and
\* leave the table as it was, not even created; a temporal run does so only
\* when it loaded nothing, and goes on to write whatever it loaded otherwise.
C5_BelowMinimumNeverWrites ==
    pc[1] # "idle" =>
        /\ Len(df[1]) < MinRecords =>
              (pc[1] \in {"loaded", "insufficient"} /\ table = NoTable)
        /\ (job = "temporal" /\ Len(df[1]) >= 1) => pc[1] # "insufficient"

\* a hotspot run over three records ended as insufficient data, no table made
C5_Witness ==
    /\ job = "hotspot"
    /\ Len(df[1]) = 3
    /\ pc[1] = "insufficient"
    /\ table = NoTable

\* ---------------------------------------------------------------------- C6
\* four thefts at one place, severities 3, 3, 4, 2, ten days from first to last
FourThefts == Store(CorrelationSites, <<1, 1, 1, 1, 0, 0, 0>>)

\* the same four with a fifth theft elsewhere and five or more other records
FourTheftsAmongTen ==
    {Store(CorrelationSites, <<1, 1, 1, 1, 1, n, z>>) : n \in 5..MaxFiller, z \in 0..1}

TheftRows == SelectSeq(table.rows, LAMBDA row : row.category = "theft")

\* C6 as stated: from the four thefts alone the correlation job writes one
\* row: count 4, avg_severity 3.0, span 10, organized, confidence 0.7567.
C6_FourTheftsOneRow ==
    (job = "correlation" /\ store = FourThefts /\ pc[1] \in {"insufficient", "done"}) =>
        /\ Len(table.rows) = 1
        /\ Len(Results(job, df[1])) = 1
        /\ LET row == Results(job, df[1])[1]
           IN /\ row.incident_count = 4
              /\ row.avg_severity = Whole(3)
              /\ row.time_span_days = 10
              /\ row.is_likely_organized
              /\ Numeric(row.confidence_score, 4) = 7567

\* C6 amended: from the four thefts alone the job writes nothing (it wants 10
\* records, 5 of the category); loaded with a fifth theft elsewhere and five
\* or more records of another category they make the one theft row: count 4,
\* avg_severity 3.00, span 10, organized, confidence 0.59.
C6_FourTheftsNeedTenRecords ==
    job = "correlation" =>
        /\ (store = FourThefts /\ pc[1] # "idle") =>
              (pc[1] \in {"loaded", "insufficient"} /\ table = NoTable)
        /\ (store \in FourTheftsAmongTen /\ pc[1] = "done") =>
              /\ Len(TheftRows) = 1
              /\ TheftRows[1].incident_count = 4
              /\ TheftRows[1].avg_severity = 300
              /\ TheftRows[1].time_span_days = 10
              /\ TheftRows[1].is_likely_organized
              /\ TheftRows[1].confidence_score = 59

\* the four thefts among ten records were analysed and their row written
C6_Witness ==
    /\ job = "correlation"
    /\ store = Store(CorrelationSites, <<1, 1, 1, 1, 1, 5, 0>>)
    /\ pc[1] = "done"
    /\ Len(table.rows) = 2
    /\ Len(TheftRows) = 1

\* ---------------------------------------------------------------------- C7
\* C7: CREATE IF NOT EXISTS and TRUNCATE take effect in one step, which leaves
\* the table existing and empty, or not at all; the append is a later step;
\* when the append of a run on its own fails the table is left empty, and an
\* empty table gets rows only by a run completing its append.
C7_WritePhaseSteps ==
    [][ /\ \A r \in Runs :
            /\ (pc[r] = "computed" /\ pc'[r] = "truncate_failed") => table' = table
            /\ (pc[r] = "computed" /\ pc'[r] = "truncated") =>
                  table' = [exists |-> TRUE, rows |-> <<>>]
            /\ (pc[r] = "truncated" /\ pc'[r] = "append_failed" /\ ~overlap[r]) =>
                  table' = [exists |-> TRUE, rows |-> <<>>]
        /\ (table.rows = <<>> /\ table'.rows # <<>>) =>
              \E r \in Runs : pc[r] = "truncated" /\ pc'[r] = "done"
      ]_vars

\* a run alone lost its append after an earlier run had filled the table: the
\* table is empty
C7_Witness ==
    \E r \in Runs :
        /\ pc[r] = "append_failed"
        /\ ~overlap[r]
        /\ pc[Other(r)] = "done"
        /\ ~overlap[Other(r)]
        /\ Stored(Other(r)) # <<>>
        /\ table = [exists |-> TRUE, rows |-> <<>>]

\* ---------------------------------------------------------------------- C8
\* invocation r ends in this step without a fault
EndsWell(r) ==
    \/ pc[r] = "truncated" /\ pc'[r] = "done"
    \/ pc[r] = "loaded" /\ pc'[r] = "insufficient"

\* C8 as stated: after any run that ends without a fault and overlapped no
\* other, the table holds exactly the rows computed from what that run loaded.
C8_EveryRunReplaces ==
    [][ \A r \in Runs : (EndsWell(r) /\ ~overlap[r]) => table'.rows = Stored(r) ]_vars

\* C8 amended: after any run that completes its write phase without a fault
\* and overlapped no other, the table holds exactly the rows computed from
\* what that run loaded; a run that ends as insufficient data leaves the
\* table, earlier rows included, as it was.
C8_WritingRunReplaces ==
    [][ \A r \in Runs :
            /\ (pc[r] = "truncated" /\ pc'[r] = "done" /\ ~overlap[r]) =>
                  table' = [exists |-> TRUE, rows |-> Stored(r)]
            /\ (pc[r] = "loaded" /\ pc'[r] = "insufficient") => table' = table
      ]_vars

\* two runs, neither overlapped, computed different rows; the table holds
\* those of one of them alone
C8_Witness ==
    \E r \in Runs :
        /\ pc[r] = "done"
        /\ pc[Other(r)] = "done"
        /\ ~overlap[r]
        /\ ~overlap[Other(r)]
        /\ Stored(Other(r)) # <<>>
        /\ Stored(Other(r)) # Stored(r)
        /\ table.rows = Stored(r)

\* ---------------------------------------------------------------------- C9
\* C9: when a run that overlapped no other ends without a fault, having
\* loaded the same records as the run that ended just before it (no fault,
\* no overlap), the table is row for row what that run had left.
C9_SecondRunSameTable ==
    [][ \A r \in Runs :
            (EndsWell(r) /\ ~overlap[r] /\ last.valid /\ last.df = df[r]) =>
                table' = last.table
      ]_vars

\* two runs one after the other loaded the same records and wrote; the table
\* holds one copy of their rows
C9_Witness ==
    /\ pc[1] = "done"
    /\ pc[2] = "done"
    /\ ~overlap[1]
    /\ ~overlap[2]
    /\ df[1] = df[2]
    /\ last.valid
    /\ last.df = df[1]
    /\ table.rows # <<>>
    /\ table.rows = Stored(1)

\* --------------------------------------------------------------------- C10
\* C10: when two runs have both committed create+truncate before either
\* appended, the first append leaves the first run's rows and the second
\* leaves the rows of both, which is the result set of neither.
C10_OverlappingWritersMerge ==
    [][ \A r \in Runs :
            /\ (pc[r] = "truncated" /\ pc[Other(r)] = "truncated" /\ pc'[r] = "done") =>
                  table'.rows = Stored(r)
            /\ (pc[r] = "truncated" /\ pc[Other(r)] = "done" /\ overlap[r]
                  /\ table.rows = Stored(Other(r)) /\ pc'[r] = "done") =>
                  /\ table'.rows = Stored(Other(r)) \o Stored(r)
                  /\ table'.rows # Stored(r)
                  /\ table'.rows # Stored(Other(r))
      ]_vars

\* both runs truncated, then both appended: the table holds the rows of both
C10_Witness ==
    \E r \in Runs :
        /\ pc[r] = "done"
        /\ pc[Other(r)] = "done"
        /\ overlap[r]
        /\ overlap[Other(r)]
        /\ df[r] # df[Other(r)]
        /\ table.rows = Stored(Other(r)) \o Stored(r)
        /\ Len(table.rows) > Len(Stored(r))
        /\ Len(table.rows) > Len(Stored(Other(r)))

====
